---------------------------- MODULE Spec2Model ----------------------------
(* Model of tasks.py, the invoke task file of the Voice Changer Demo:     *)
(* the task bodies, the order in which the invoke executor runs them, the *)
(* external commands they issue and what those do to the filesystem.      *)
EXTENDS Integers, Sequences, FiniteSets, TLC

(**************************************************************************)
(* Bounds of the model.                                                   *)
(**************************************************************************)
\* exit codes a failing external command may return: 1..MaxExitCode
MaxExitCode == 2
\* invocations one shell session makes, one after the other
MaxRuns == 2
\* invocations each of two shells makes when both are in use at once
ConcRuns == 1
\* invocations of test made with each filter
TestRuns == 1

(**************************************************************************)
(* Strings are sequences of one-character strings, so that lower() and    *)
(* string formatting are computed rather than assumed.                    *)
(**************************************************************************)
UpperAlpha == <<"A","B","C","D","E","F","G","H","I","J","K","L","M",
                "N","O","P","Q","R","S","T","U","V","W","X","Y","Z">>
LowerAlpha == <<"a","b","c","d","e","f","g","h","i","j","k","l","m",
                "n","o","p","q","r","s","t","u","v","w","x","y","z">>

LowerChar(ch) ==
    IF \E i \in DOMAIN UpperAlpha : UpperAlpha[i] = ch
    THEN LowerAlpha[CHOOSE i \in DOMAIN UpperAlpha : UpperAlpha[i] = ch]
    ELSE ch

\* str.lower()
Lower(s) == [i \in DOMAIN s |-> LowerChar(s[i])]

BUILD_DIR == <<"b","u","i","l","d">>
EXTERNAL_DIR == <<"e","x","t","e","r","n","a","l">>
SDK_VERSION == <<"3",".","1",".","0">>

X86_64 == <<"x","8","6","_","6","4">>
AMD64 == <<"a","m","d","6","4">>
AARCH64 == <<"a","a","r","c","h","6","4">>
ARM64 == <<"a","r","m","6","4">>

\* values platform.machine() returns on the hosts considered
Machines ==
    { X86_64,
      <<"A","R","M","6","4">>,
      <<"A","R","M","v","7","L">> }

\* spellings of machine identifiers, for the resolution of the architecture
Spellings ==
    { X86_64, <<"X","8","6","_","6","4">>,
      AMD64, <<"A","M","D","6","4">>, <<"A","m","d","6","4">>,
      AARCH64, <<"A","A","R","C","H","6","4">>, <<"A","a","r","c","h","6","4">>,
      ARM64, <<"A","R","M","6","4">>, <<"A","r","m","6","4">>,
      <<"a","r","m","v","7","l">>, <<"A","R","M","v","7","L">>,
      <<"i","6","8","6">>, <<"x","8","6">>, <<"a","r","m">> }

\* a get_arch that compares the identifier as the host spells it
get_arch_as_spelt(machine) ==
    IF machine \in {X86_64, AMD64} THEN [ok |-> TRUE, arch |-> X86_64, text |-> <<>>]
    ELSE IF machine \in {AARCH64, ARM64} THEN [ok |-> TRUE, arch |-> AARCH64, text |-> <<>>]
    ELSE [ok |-> FALSE, arch |-> <<>>, text |-> machine]

\* get_arch(): the tag, or the RuntimeError and the text it carries
get_arch(machine) ==
    LET m == Lower(machine) IN
    IF m \in {X86_64, AMD64} THEN [ok |-> TRUE, arch |-> X86_64, text |-> <<>>]
    ELSE IF m \in {AARCH64, ARM64} THEN [ok |-> TRUE, arch |-> AARCH64, text |-> <<>>]
    ELSE [ok |-> FALSE, arch |-> <<>>, text |-> m]

UrlPrefix == <<"https://switchboard-sdk-public.s3.amazonaws.com/builds/release/">>

get_sdk_url(arch) ==
    IF arch = X86_64
    THEN UrlPrefix \o SDK_VERSION \o <<"/linux/SwitchboardSDK.zip">>
    ELSE UrlPrefix \o SDK_VERSION \o <<"/linux-aarch64/SwitchboardSDK.zip">>

get_effects_url(arch) ==
    IF arch = X86_64
    THEN UrlPrefix \o SDK_VERSION \o <<"/linux/SwitchboardAudioEffects.zip">>
    ELSE UrlPrefix \o SDK_VERSION \o <<"/linux-aarch64/SwitchboardAudioEffects.zip">>

(**************************************************************************)
(* The dependencies fetch_deps provisions, in the order it handles them.  *)
(**************************************************************************)
Archives == {"switchboard-sdk", "switchboard-effects"}
Clones == {"signalsmith-stretch", "signalsmith-linear", "Catch2"}
Deps == Archives \cup Clones

None == <<"None">>


(**************************************************************************)
(* Task bodies, as the sequence of steps each performs.  A step is one of *)
(*   enter    the body of a task starts                                   *)
(*   arch     the call of get_arch()                                      *)
(*   mkdir    os.makedirs(dir, exist_ok=True)                             *)
(*   unless   "if not os.path.exists(dep dir)": guards the next n steps   *)
(*   run      c.run(...): one blocking external command                   *)
(*   rmtree   clean_deps' "if exists: shutil.rmtree(EXTERNAL_DIR)"        *)
(**************************************************************************)
Step(kind, task, cmd, dep, arg, n) ==
    [kind |-> kind, task |-> task, cmd |-> cmd, dep |-> dep, arg |-> arg, n |-> n]

Enter(task) == Step("enter", task, "-", "-", <<>>, 0)
RunStep(task, cmd, dep, arg) == Step("run", task, cmd, dep, arg, 0)

\* an archive dependency whose zip is not removed
ArchiveStepsKeepZip(d) ==
    << Step("unless", "fetch_deps", "-", d, <<>>, 2),
       RunStep("fetch_deps", "wget", d, <<>>),
       RunStep("fetch_deps", "unzip", d, <<>>) >>

\* lines 59-79: one archive dependency
ArchiveSteps(d) ==
    << Step("unless", "fetch_deps", "-", d, <<>>, 3),
       RunStep("fetch_deps", "wget", d, <<>>),
       RunStep("fetch_deps", "unzip", d, <<>>),
       RunStep("fetch_deps", "rm", d, <<>>) >>

\* lines 81-103: one git dependency
CloneSteps(d) ==
    << Step("unless", "fetch_deps", "-", d, <<>>, 1),
       RunStep("fetch_deps", "git clone", d, <<>>) >>

\* a fetch_deps that makes the external directory before it asks for the
\* architecture
fetch_deps_mkdir_first ==
    << Enter("fetch_deps"),
       Step("mkdir", "fetch_deps", "-", "-", EXTERNAL_DIR, 0),
       Step("arch", "fetch_deps", "-", "-", <<>>, 0) >>
    \o ArchiveSteps("switchboard-sdk")
    \o ArchiveSteps("switchboard-effects")
    \o CloneSteps("signalsmith-stretch")
    \o CloneSteps("signalsmith-linear")
    \o CloneSteps("Catch2")

fetch_deps ==
    << Enter("fetch_deps"),
       Step("arch", "fetch_deps", "-", "-", <<>>, 0),
       Step("mkdir", "fetch_deps", "-", "-", EXTERNAL_DIR, 0) >>
    \o ArchiveSteps("switchboard-sdk")
    \o ArchiveSteps("switchboard-effects")
    \o CloneSteps("signalsmith-stretch")
    \o CloneSteps("signalsmith-linear")
    \o CloneSteps("Catch2")

clean_deps ==
    << Enter("clean_deps"),
       Step("rmtree", "clean_deps", "-", "-", EXTERNAL_DIR, 0) >>

\* build_type = "Release" if release else "Debug"
BuildType(release) == IF release THEN <<"Release">> ELSE <<"Debug">>

configure(release) ==
    << Enter("configure"),
       Step("mkdir", "configure", "-", "-", BUILD_DIR, 0),
       RunStep("configure", "cmake -B", "-", BuildType(release)) >>

\* the body of build alone: its pre-task belongs to the executor
build(release) ==
    << Enter("build"),
       RunStep("build", "cmake --build", "-", <<>>) >>

clean ==
    << Enter("clean"),
       RunStep("clean", "rm -rf", "-", BUILD_DIR) >>

\* a task called as a function runs its body and nothing else
setup(release) == <<Enter("setup")>> \o fetch_deps \o build(release)

rebuild(release) == <<Enter("rebuild")>> \o clean \o build(release)

\* test_cmd: the command line handed to c.run
TestCmd(filter) ==
    LET test_cmd == BUILD_DIR \o <<"/VoiceChangerTests">> IN
    IF filter # None /\ filter # <<>>
    THEN test_cmd \o <<" ", "\"">> \o filter \o <<"\"">>
    ELSE test_cmd

test(filter) ==
    << Enter("test"),
       RunStep("test", "tests", "-", TestCmd(filter)) >>

run ==
    << Enter("run"),
       RunStep("run", "demo", "-", BUILD_DIR \o <<"/voice-changer-demo">>) >>

test_integration ==
    << Enter("test_integration"),
       RunStep("test_integration", "tests", "-",
               BUILD_DIR \o <<"/VoiceChangerTests", " ", "\"">>
                   \o <<"[","i","n","t","e","g","r","a","t","i","o","n","]">>
                   \o <<"\"">>) >>

test_baseline ==
    << Enter("test_baseline"),
       RunStep("test_baseline", "tests", "-",
               BUILD_DIR \o <<"/VoiceChangerTests", " ", "\"">>
                   \o <<"[","b","a","s","e","l","i","n","e","]">>
                   \o <<"\"">>) >>

format ==
    << Enter("format"),
       RunStep("format", "clang-format", "-", <<>>) >>

check ==
    << Enter("check"),
       RunStep("check", "run-clang-tidy", "-", BUILD_DIR) >>

Tasks ==
    { "fetch_deps", "clean_deps", "setup", "configure", "build", "clean",
      "rebuild", "test", "run", "test_integration", "test_baseline",
      "format", "check" }

\* the tasks that take --release
TakesRelease == {"setup", "configure", "build", "rebuild"}

\* filters given to test on the command line
Filters == { None, <<"[","b","]">> }

\* a call of a task with its keyword arguments
Call(task, release, filter) ==
    [task |-> task, release |-> release, filter |-> filter]

Body(call) ==
    CASE call.task = "fetch_deps" -> fetch_deps
      [] call.task = "clean_deps" -> clean_deps
      [] call.task = "setup" -> setup(call.release)
      [] call.task = "configure" -> configure(call.release)
      [] call.task = "build" -> build(call.release)
      [] call.task = "clean" -> clean
      [] call.task = "rebuild" -> rebuild(call.release)
      [] call.task = "test" -> test(call.filter)
      [] call.task = "run" -> run
      [] call.task = "test_integration" -> test_integration
      [] call.task = "test_baseline" -> test_baseline
      [] call.task = "format" -> format
      [] call.task = "check" -> check

(**************************************************************************)
(* The executor: the pre-tasks declared with @task(pre=[...]) are run     *)
(* before the task, each as a call without arguments, and a call that     *)
(* occurs twice is run once.                                              *)
(**************************************************************************)
\* a tasks.py in which configure and build name each other as pre-task
PreWithCycle(task) ==
    CASE task = "build" -> <<"configure">>
      [] task = "configure" -> <<"build">>
      [] task = "test" -> <<"build">>
      [] task = "run" -> <<"build">>
      [] OTHER -> <<>>

Pre(task) ==
    CASE task = "build" -> <<"configure">>
      [] task = "test" -> <<"build">>
      [] task = "run" -> <<"build">>
      [] OTHER -> <<>>

\* the tasks in the order tasks.py defines them
Declared ==
    << "fetch_deps", "clean_deps", "setup", "configure", "build", "clean",
       "rebuild", "test", "run", "test_integration", "test_baseline",
       "format", "check" >>

\* tasks.py can be imported: each name in a pre=[...] list is bound when
\* its decorator is evaluated, that is, the task it names is defined above
Loads ==
    \A i \in DOMAIN Declared :
        \A k \in DOMAIN Pre(Declared[i]) :
            \E j \in 1..(i - 1) : Declared[j] = Pre(Declared[i])[k]

RECURSIVE ExpandCalls(_)
ExpandCalls(calls) ==
    IF calls = <<>> THEN <<>>
    ELSE LET call == Head(calls)
             pre == [i \in DOMAIN Pre(call.task) |->
                        Call(Pre(call.task)[i], FALSE, None)]
         IN ExpandCalls(pre) \o <<call>> \o ExpandCalls(Tail(calls))

RECURSIVE Dedupe(_)
Dedupe(calls) ==
    IF calls = <<>> THEN <<>>
    ELSE LET front == Dedupe(SubSeq(calls, 1, Len(calls) - 1))
             last == calls[Len(calls)]
         IN IF \E i \in DOMAIN front : front[i] = last
            THEN front
            ELSE Append(front, last)

RECURSIVE Flatten(_)
Flatten(calls) ==
    IF calls = <<>> THEN <<>>
    ELSE Body(Head(calls)) \o Flatten(Tail(calls))

\* the steps of one invocation "inv <task> [--release] [--filter=S]"
Program(c) == Flatten(Dedupe(ExpandCalls(<<c>>)))

(**************************************************************************)
(* State.                                                                 *)
(*   machine  what platform.machine() returns on this host                *)
(*   fs       the filesystem: the external directory and the local path   *)
(*            of each dependency, the file under /tmp each archive is     *)
(*            downloaded to (one fixed name per archive), the build       *)
(*            directory                                                   *)
(*   status, call, prog, pc, arch, exit   one invocation of inv per       *)
(*            process: its command line, its steps, the step it is at,    *)
(*            the value of the local arch, its exit code                  *)
(*   log      what the invocation did so far                              *)
(*   start    the filesystem the invocation found                         *)
(*   prev     how the process's previous invocation ended                 *)
(*   runs     the invocations the process has made                        *)
(**************************************************************************)
VARIABLES machine, fs, status, call, prog, pc, arch, exit, log, start, prev, runs

vars == <<machine, fs, status, call, prog, pc, arch, exit, log, start, prev, runs>>

\* two shells on the same host
Procs == {1, 2}

PathStates == {"absent", "partial", "complete"}
Ages == {"none", "old", "new"}

NoZip == [st |-> "absent", by |-> 0]
NoBuildDir == [exists |-> FALSE, cache |-> "none", objs |-> "none"]

\* build directories a checkout may hold before the first invocation
BuildDirs ==
    { NoBuildDir,
      [exists |-> TRUE, cache |-> "none", objs |-> "none"],
      [exists |-> TRUE, cache |-> "old", objs |-> "old"] }

\* files written by an earlier invocation are old files to the next one
Aged(f) ==
    [f EXCEPT !.build.cache = IF @ = "new" THEN "old" ELSE @,
              !.build.objs = IF @ = "new" THEN "old" ELSE @]

\* an entry of the log: a step taken, and for a command its exit status
\* and the process that wrote the zip it overwrote, read or deleted (0: none)
Entry(step, rc, src) ==
    [kind |-> step.kind, task |-> step.task, cmd |-> step.cmd,
     dep |-> step.dep, arg |-> step.arg, rc |-> rc, src |-> src]

\* the exit code of an invocation that dies of an uncaught RuntimeError
ErrorExit == 1

FailCodes == 1..MaxExitCode

(**************************************************************************)
(* What an external command can do: the set of its outcomes, each an exit *)
(* status rc, the filesystem it leaves and whose zip it touched           *)
(**************************************************************************)
Outcome(rc, f, src) == [rc |-> rc, fs |-> f, src |-> src]

\* wget -O /tmp/X.zip url: the file is this process's download when it
\* succeeds; a failed run leaves the file as it was or a truncated file
Wget(p, d, f) ==
    { Outcome(0, [f EXCEPT !.zip[d] = [st |-> "complete", by |-> p]], f.zip[d].by) }
    \cup { Outcome(rc, f, 0) : rc \in FailCodes }
    \cup { Outcome(rc, [f EXCEPT !.zip[d] = [st |-> "partial", by |-> p]],
                   f.zip[d].by) : rc \in FailCodes }

\* unzip /tmp/X.zip -d dir: succeeds only on a whole zip; a failed run
\* leaves dir as it was or partly written
Unzip(p, d, f) ==
    (IF f.zip[d].st = "complete"
     THEN { Outcome(0, [f EXCEPT !.deps[d] = "complete"], f.zip[d].by) }
          \cup { Outcome(rc, [f EXCEPT !.deps[d] =
                                 IF @ = "absent" THEN "partial" ELSE @],
                         f.zip[d].by) : rc \in FailCodes }
     ELSE {})
    \cup { Outcome(rc, f, f.zip[d].by) : rc \in FailCodes }

\* rm /tmp/X.zip: fails when there is no such file
Rm(p, d, f) ==
    (IF f.zip[d].st # "absent"
     THEN { Outcome(0, [f EXCEPT !.zip[d] = NoZip], f.zip[d].by) }
     ELSE {})
    \cup { Outcome(rc, f, f.zip[d].by) : rc \in FailCodes }

\* git clone url dir: refuses a dir that exists; a run that fails removes
\* dir, a run that is killed leaves it partly written
GitClone(p, d, f) ==
    (IF f.deps[d] = "absent"
     THEN { Outcome(0, [f EXCEPT !.deps[d] = "complete"], 0) }
          \cup { Outcome(rc, [f EXCEPT !.deps[d] = "partial"], 0) :
                   rc \in FailCodes }
     ELSE {})
    \cup { Outcome(rc, f, 0) : rc \in FailCodes }

\* cmake -B build -DCMAKE_BUILD_TYPE=...: writes the build system files
CMakeConfigure(f) ==
    { Outcome(0, [f EXCEPT !.build.exists = TRUE, !.build.cache = "new"], 0) }
    \cup { Outcome(rc, f, 0) : rc \in FailCodes }

\* cmake --build build: writes the object files and binaries
CMakeBuild(f) ==
    { Outcome(0, [f EXCEPT !.build.exists = TRUE, !.build.objs = "new"], 0) }
    \cup { Outcome(rc, f, 0) : rc \in FailCodes }

\* an rm -rf build/* that empties the directory and leaves it
RmRfContents(f) ==
    { Outcome(0, [f EXCEPT !.build.cache = "none", !.build.objs = "none"], 0) }
    \cup (IF f.build.exists THEN { Outcome(rc, f, 0) : rc \in FailCodes } ELSE {})

\* rm -rf build: removes the directory; -f makes a missing one a success
RmRf(f) ==
    { Outcome(0, [f EXCEPT !.build = NoBuildDir], 0) }
    \cup (IF f.build.exists THEN { Outcome(rc, f, 0) : rc \in FailCodes } ELSE {})

\* the test binary, the demo, clang-format, run-clang-tidy
Opaque(f) == { Outcome(rc, f, 0) : rc \in {0} \cup FailCodes }

Outcomes(p, step, f) ==
    CASE step.cmd = "wget" -> Wget(p, step.dep, f)
      [] step.cmd = "unzip" -> Unzip(p, step.dep, f)
      [] step.cmd = "rm" -> Rm(p, step.dep, f)
      [] step.cmd = "git clone" -> GitClone(p, step.dep, f)
      [] step.cmd = "cmake -B" -> CMakeConfigure(f)
      [] step.cmd = "cmake --build" -> CMakeBuild(f)
      [] step.cmd = "rm -rf" -> RmRf(f)
      [] OTHER -> Opaque(f)

\* the argument a command is run with: the URL of a download is chosen by
\* the architecture found at the start of fetch_deps
Argument(step, a) ==
    IF step.cmd = "wget"
    THEN IF step.dep = "switchboard-sdk" THEN get_sdk_url(a) ELSE get_effects_url(a)
    ELSE step.arg

(**************************************************************************)
(* Initial state: a checkout without external dependencies.               *)
(**************************************************************************)
InitOn(hosts) ==
    /\ machine \in hosts
    /\ \E b \in BuildDirs :
         fs = [ext |-> FALSE,
               deps |-> [d \in Deps |-> "absent"],
               zip |-> [d \in Archives |-> NoZip],
               build |-> b]
    /\ status = [p \in Procs |-> "idle"]
    /\ call = [p \in Procs |-> Call("-", FALSE, None)]
    /\ prog = [p \in Procs |-> <<>>]
    /\ pc = [p \in Procs |-> 1]
    /\ arch = [p \in Procs |-> <<>>]
    /\ exit = [p \in Procs |-> 0]
    /\ log = [p \in Procs |-> <<>>]
    /\ start = [p \in Procs |-> fs]
    /\ prev = [p \in Procs |-> [task |-> "-", failed |-> FALSE, dep |-> "-"]]
    /\ runs = [p \in Procs |-> 0]

Init == InitOn(Machines)

\* the invocation of p has a step to take, and the step
Running(p) == status[p] = "running" /\ pc[p] <= Len(prog[p])
Cur(p) == prog[p][pc[p]]

\* the dependency the invocation of p failed on, "-" when there is none
FailedDep(p) ==
    IF log[p] # <<>> /\ log[p][Len(log[p])].rc # 0
    THEN log[p][Len(log[p])].dep
    ELSE "-"

\* an inv that exits 1 whatever failed
FailWithOne(p, rc) ==
    /\ status' = [status EXCEPT ![p] = "done"]
    /\ exit' = [exit EXCEPT ![p] = ErrorExit]
    /\ pc' = pc

\* a failed step ends the invocation: nothing catches the exception, and
\* inv exits with the exit status of the command that failed
Fail(p, rc) ==
    /\ status' = [status EXCEPT ![p] = "done"]
    /\ exit' = [exit EXCEPT ![p] = rc]
    /\ pc' = pc

\* "inv <task> ..." is typed in a shell that runs nothing; inv imports
\* tasks.py, and runs no task when the import raises
Start(p, c) ==
    /\ status[p] # "running"
    /\ status' = [status EXCEPT ![p] = IF Loads THEN "running" ELSE "done"]
    /\ call' = [call EXCEPT ![p] = c]
    /\ prog' = [prog EXCEPT ![p] = IF Loads THEN Program(c) ELSE <<>>]
    /\ pc' = [pc EXCEPT ![p] = 1]
    /\ arch' = [arch EXCEPT ![p] = <<>>]
    /\ exit' = [exit EXCEPT ![p] = IF Loads THEN 0 ELSE ErrorExit]
    /\ log' = [log EXCEPT ![p] = <<>>]
    /\ fs' = Aged(fs)
    /\ start' = [start EXCEPT ![p] = fs']
    /\ prev' = [prev EXCEPT ![p] =
                  [task |-> call[p].task, failed |-> exit[p] # 0, dep |-> FailedDep(p)]]
    /\ runs' = [runs EXCEPT ![p] = @ + 1]
    /\ UNCHANGED machine

Invoke(p) ==
    /\ runs[p] < MaxRuns
    /\ \E t \in Tasks, release \in BOOLEAN, filter \in Filters :
         /\ release => t \in TakesRelease
         /\ filter # None => t = "test"
         /\ Start(p, Call(t, release, filter))

\* the body of a task starts
EnterTask(p) ==
    /\ Running(p) /\ Cur(p).kind = "enter"
    /\ log' = [log EXCEPT ![p] = Append(@, Entry(Cur(p), 0, 0))]
    /\ pc' = [pc EXCEPT ![p] = @ + 1]
    /\ UNCHANGED <<machine, fs, status, call, prog, arch, exit, start, prev, runs>>

\* arch = get_arch()
GetArch(p) ==
    /\ Running(p) /\ Cur(p).kind = "arch"
    /\ LET r == get_arch(machine) IN
         IF r.ok
         THEN /\ arch' = [arch EXCEPT ![p] = r.arch]
              /\ pc' = [pc EXCEPT ![p] = @ + 1]
              /\ UNCHANGED <<log, status, exit>>
         ELSE /\ log' = [log EXCEPT ![p] =
                           Append(@, [Entry(Cur(p), ErrorExit, 0) EXCEPT !.arg = r.text])]
              /\ Fail(p, ErrorExit)
              /\ UNCHANGED arch
    /\ UNCHANGED <<machine, fs, call, prog, start, prev, runs>>

\* os.makedirs(dir, exist_ok=True)
MakeDirs(p) ==
    /\ Running(p) /\ Cur(p).kind = "mkdir"
    /\ fs' = IF Cur(p).arg = EXTERNAL_DIR
             THEN [fs EXCEPT !.ext = TRUE]
             ELSE [fs EXCEPT !.build.exists = TRUE]
    /\ pc' = [pc EXCEPT ![p] = @ + 1]
    /\ UNCHANGED <<machine, status, call, prog, arch, exit, log, start, prev, runs>>

\* a fetch_deps that forgets to look for the local path
ExistsNever(d, f) == FALSE

\* if not os.path.exists(dir): ... else: print("... skipping")
Exists(d, f) == f.deps[d] # "absent"

CheckExists(p) ==
    /\ Running(p) /\ Cur(p).kind = "unless"
    /\ pc' = [pc EXCEPT ![p] = IF Exists(Cur(p).dep, fs) THEN @ + Cur(p).n + 1 ELSE @ + 1]
    /\ UNCHANGED <<machine, fs, status, call, prog, arch, exit, log, start, prev, runs>>

\* a c.run(..., warn=True), which returns whatever the exit status
RaisesNever(rc) == FALSE

\* what c.run does with the exit status: non-zero raises UnexpectedExit
Raises(rc) == rc # 0

\* c.run(...)
RunCommand(p) ==
    /\ Running(p) /\ Cur(p).kind = "run"
    /\ \E o \in Outcomes(p, Cur(p), fs) :
         /\ fs' = o.fs
         /\ log' = [log EXCEPT ![p] =
                      Append(@, [Entry(Cur(p), o.rc, o.src) EXCEPT
                                   !.arg = Argument(Cur(p), arch[p])])]
         /\ IF Raises(o.rc)
            THEN Fail(p, o.rc)
            ELSE /\ pc' = [pc EXCEPT ![p] = @ + 1]
                 /\ UNCHANGED <<status, exit>>
    /\ UNCHANGED <<machine, call, prog, arch, start, prev, runs>>

\* if os.path.exists(EXTERNAL_DIR): shutil.rmtree(EXTERNAL_DIR)
RmTree(p) ==
    /\ Running(p) /\ Cur(p).kind = "rmtree"
    /\ fs' = IF fs.ext
             THEN [fs EXCEPT !.ext = FALSE, !.deps = [d \in Deps |-> "absent"]]
             ELSE fs
    /\ pc' = [pc EXCEPT ![p] = @ + 1]
    /\ UNCHANGED <<machine, status, call, prog, arch, exit, log, start, prev, runs>>

\* the last task returned: inv exits 0
Finish(p) ==
    /\ status[p] = "running" /\ pc[p] > Len(prog[p])
    /\ status' = [status EXCEPT ![p] = "done"]
    /\ exit' = [exit EXCEPT ![p] = 0]
    /\ UNCHANGED <<machine, fs, call, prog, pc, arch, log, start, prev, runs>>

\* one shell: invocations follow one another
Next ==
    \/ Invoke(1)
    \/ EnterTask(1)
    \/ GetArch(1)
    \/ MakeDirs(1)
    \/ CheckExists(1)
    \/ RunCommand(1)
    \/ RmTree(1)
    \/ Finish(1)

Spec == Init /\ [][Next]_vars

\* two shells at once, each running "inv fetch-deps"
InvokeFetch(p) ==
    /\ runs[p] < ConcRuns
    /\ Start(p, Call("fetch_deps", FALSE, None))

NextConc ==
    \E p \in Procs :
        \/ InvokeFetch(p)
        \/ EnterTask(p)
        \/ GetArch(p)
        \/ MakeDirs(p)
        \/ CheckExists(p)
        \/ RunCommand(p)
        \/ Finish(p)

SpecConc == Init /\ [][NextConc]_vars

(**************************************************************************)
(* Properties.  The shell of the sequential specification is process 1.   *)
(**************************************************************************)
Done(p) == status[p] = "done"
Succeeded(p) == Done(p) /\ exit[p] = 0

\* the positions of the log of p at which cmd was run
Ran(p, cmd) == { i \in DOMAIN log[p] : log[p][i].kind = "run" /\ log[p][i].cmd = cmd }
RanOk(p, cmd) == { i \in Ran(p, cmd) : log[p][i].rc = 0 }

\* how many times the body of task t was entered
Count(p, t) ==
    Cardinality({ i \in DOMAIN log[p] : log[p][i].kind = "enter" /\ log[p][i].task = t })

\* the dependencies for which the invocation issued a command
Attempted(p) ==
    { log[p][i].dep : i \in { j \in DOMAIN log[p] :
                                 log[p][j].kind = "run" /\ log[p][j].dep \in Deps } }

\* the invocation runs the body of fetch_deps
Fetches(p) == status[p] # "idle" /\ call[p].task \in {"fetch_deps", "setup"}

AllPresentAtStart(p) == \A d \in Deps : start[p].deps[d] # "absent"

\* C1: in every invocation, cmake --build starts only after a cmake -B of
\* the same invocation has returned success.
C1_ConfigureBeforeBuild ==
    \A i \in Ran(1, "cmake --build") :
        \E j \in RanOk(1, "cmake -B") : j < i

\* C2: when rebuild has ended and every command it ran succeeded, nothing
\* the build directory held before is left, and after the clean step a
\* configure step and then a build step have each run successfully.
C2_RebuildCleansConfiguresBuilds ==
    (Succeeded(1) /\ call[1].task = "rebuild")
        => /\ fs.build.cache # "old"
           /\ fs.build.objs # "old"
           /\ \E i \in RanOk(1, "rm -rf"), j \in RanOk(1, "cmake -B"),
                 k \in RanOk(1, "cmake --build") : i < j /\ j < k

\* the prerequisites the command table gives each command
Requires(t) ==
    CASE t = "setup" -> {"fetch_deps", "build"}
      [] t = "build" -> {"configure"}
      [] t = "test" -> {"build"}
      [] t = "run" -> {"build"}
      [] OTHER -> {}

Reachable(t) ==
    LET one == {t} \cup Requires(t)
        two == one \cup UNION { Requires(u) : u \in one }
    IN two \cup UNION { Requires(u) : u \in two }

\* C3: in an invocation that ran to its end, every task reachable from
\* the command through the prerequisite relation was executed exactly
\* once; test ran configure, then build, then the test binary.
C3_ExactlyOnce ==
    Succeeded(1)
        => /\ \A t \in Reachable(call[1].task) : Count(1, t) = 1
           /\ call[1].task = "test"
                => \E i \in RanOk(1, "cmake -B"), j \in RanOk(1, "cmake --build"),
                      k \in RanOk(1, "tests") : i < j /\ j < k

\* C4: fetch_deps issues no command for a dependency whose local path
\* existed when it started, and such a dependency is never what it fails
\* on; started with all five present it issues no command at all, leaves
\* the filesystem as it found it, and on a supported host exits 0.
C4_SkipExisting ==
    Fetches(1)
        => /\ \A d \in Attempted(1) : start[1].deps[d] = "absent"
           /\ AllPresentAtStart(1)
                => /\ Attempted(1) = {}
                   /\ call[1].task = "fetch_deps"
                        => /\ fs = start[1]
                           /\ \A i \in DOMAIN log[1] : log[1][i].kind # "run"
                           /\ (Done(1) /\ get_arch(machine).ok) => exit[1] = 0

\* a fetch_deps that found all five local paths has ended with success
C4_Witness ==
    /\ Succeeded(1)
    /\ call[1].task = "fetch_deps"
    /\ AllPresentAtStart(1)
    /\ Count(1, "fetch_deps") = 1

\* C5: when fetch_deps has failed in the download or the extraction of an
\* archive, nothing exists at that archive's local path and its zip is
\* not in /tmp.
C5_FailedArchiveLeavesNothing ==
    \A d \in Archives :
        (Done(1) /\ exit[1] # 0 /\ FailedDep(1) = d
           /\ log[1][Len(log[1])].cmd \in {"wget", "unzip"})
            => fs.deps[d] = "absent" /\ fs.zip[d].st = "absent"

\* C6: a fetch_deps that succeeds after a fetch_deps that failed on some
\* dependency has issued commands for exactly the dependencies the failed
\* one did not complete, and leaves all five complete.
C6_RerunCompletes ==
    (Succeeded(1) /\ call[1].task = "fetch_deps"
       /\ prev[1].task = "fetch_deps" /\ prev[1].failed /\ prev[1].dep \in Deps)
        => /\ \A d \in Deps : fs.deps[d] = "complete"
           /\ Attempted(1) = { d \in Deps : start[1].deps[d] # "complete" }

\* C7: a step that failed is the last thing its invocation did: the
\* invocation has ended, and no command or task body was started after it.
C7_FailFast ==
    \A i \in DOMAIN log[1] :
        log[1][i].rc # 0 => i = Len(log[1]) /\ Done(1) /\ exit[1] # 0

\* setup has failed in fetch_deps, on the first git dependency: the later
\* dependencies were not attempted and build was not entered
C7_Witness ==
    /\ Done(1) /\ call[1].task = "setup"
    /\ FailedDep(1) = "signalsmith-stretch"
    /\ Attempted(1) = {"switchboard-sdk", "switchboard-effects", "signalsmith-stretch"}
    /\ Count(1, "build") = 0

\* C8: in an invocation of build, setup or rebuild, every cmake -B is run
\* with the build type the command line asked for.
C8_BuildTypeThreaded ==
    call[1].task \in {"build", "setup", "rebuild"}
        => \A i \in Ran(1, "cmake -B") : log[1][i].arg = BuildType(call[1].release)

\* C9: the local path of a git dependency is absent or a complete clone.
C9_CloneAllOrNothing ==
    \A d \in Clones : fs.deps[d] \in {"absent", "complete"}

\* C10: no invocation overwrites, extracts or deletes a zip that another
\* invocation running at the same time downloaded.
C10_PrivateTemp ==
    \A p \in Procs : \A i \in DOMAIN log[p] :
        log[p][i].cmd \in {"wget", "unzip", "rm"} => log[p][i].src \in {0, p}

\* C11: when get_arch fails, the error carries the machine identifier as
\* the host reported it, and no architecture tag has been chosen.
C11_ErrorCarriesRawId ==
    \A i \in DOMAIN log[1] :
        log[1][i].kind = "arch"
            => log[1][i].arg = machine /\ arch[1] = <<>>

\* one "inv fetch-deps" on a fresh checkout, on hosts of every spelling
NextArch ==
    \/ InvokeFetch(1)
    \/ EnterTask(1)
    \/ GetArch(1)
    \/ MakeDirs(1)
    \/ CheckExists(1)
    \/ RunCommand(1)
    \/ Finish(1)

SpecArch == InitOn(Spellings) /\ [][NextArch]_vars

\* the identifiers that name each architecture, in the letter cases tried
X86Names ==
    { <<"x","8","6","_","6","4">>, <<"X","8","6","_","6","4">>,
      <<"a","m","d","6","4">>, <<"A","M","D","6","4">>, <<"A","m","d","6","4">> }
ArmNames ==
    { <<"a","a","r","c","h","6","4">>, <<"A","A","R","C","H","6","4">>,
      <<"A","a","r","c","h","6","4">>,
      <<"a","r","m","6","4">>, <<"A","R","M","6","4">>, <<"A","r","m","6","4">> }

\* the download locations of the two archives for each architecture
LinuxUrls ==
    { <<"https://switchboard-sdk-public.s3.amazonaws.com/builds/release/",
        "3", ".", "1", ".", "0", "/linux/SwitchboardSDK.zip">>,
      <<"https://switchboard-sdk-public.s3.amazonaws.com/builds/release/",
        "3", ".", "1", ".", "0", "/linux/SwitchboardAudioEffects.zip">> }
Aarch64Urls ==
    { <<"https://switchboard-sdk-public.s3.amazonaws.com/builds/release/",
        "3", ".", "1", ".", "0", "/linux-aarch64/SwitchboardSDK.zip">>,
      <<"https://switchboard-sdk-public.s3.amazonaws.com/builds/release/",
        "3", ".", "1", ".", "0", "/linux-aarch64/SwitchboardAudioEffects.zip">> }

\* the arguments of the downloads made so far
Downloaded(p) == { log[p][i].arg : i \in Ran(p, "wget") }

\* C12: on a host named x86_64 or amd64 in any letter case the resolution
\* does not fail, the tag is x86_64 and every download is from the linux
\* location; named aarch64 or arm64, the tag is aarch64 and every download
\* is from the linux-aarch64 location; once a command has been issued the
\* tag has been resolved.
C12_AliasesAndUrls ==
    /\ machine \in X86Names
         => /\ arch[1] \in {<<>>, <<"x","8","6","_","6","4">>}
            /\ Downloaded(1) \subseteq LinuxUrls
            /\ \A i \in DOMAIN log[1] : log[1][i].kind # "arch"
    /\ machine \in ArmNames
         => /\ arch[1] \in {<<>>, <<"a","a","r","c","h","6","4">>}
            /\ Downloaded(1) \subseteq Aarch64Urls
            /\ \A i \in DOMAIN log[1] : log[1][i].kind # "arch"
    /\ Attempted(1) # {} => arch[1] # <<>>

\* on a host that reports "AArch64" both archives were downloaded from the
\* linux-aarch64 location and fetch_deps succeeded
C12_Witness ==
    /\ machine = <<"A","a","r","c","h","6","4">>
    /\ Succeeded(1)
    /\ Downloaded(1) = Aarch64Urls

(**************************************************************************)
(* c.run hands its command line to a shell.  What the shell makes of a    *)
(* line over ordinary characters, space, double quote, backslash and      *)
(* semicolon: the commands it runs, each a list of words, or a syntax     *)
(* error (a quote left open) and no command at all.                       *)
(**************************************************************************)
RECURSIVE Sh(_, _, _, _, _, _, _)
Sh(line, i, quoted, word, open, words, cmds) ==
    LET closed == IF open THEN Append(words, word) ELSE words
        ended == IF closed # <<>> THEN Append(cmds, closed) ELSE cmds
    IN
    IF i > Len(line)
    THEN IF quoted THEN [ok |-> FALSE, cmds |-> <<>>] ELSE [ok |-> TRUE, cmds |-> ended]
    ELSE LET ch == line[i] IN
         IF quoted
         THEN IF ch = "\""
              THEN Sh(line, i + 1, FALSE, word, TRUE, words, cmds)
              ELSE IF ch = "\\" /\ i < Len(line) /\ line[i + 1] \in {"\"", "\\"}
              THEN Sh(line, i + 2, TRUE, Append(word, line[i + 1]), TRUE, words, cmds)
              ELSE Sh(line, i + 1, TRUE, Append(word, ch), TRUE, words, cmds)
         ELSE IF ch = " "
              THEN Sh(line, i + 1, FALSE, <<>>, FALSE, closed, cmds)
              ELSE IF ch = ";"
              THEN Sh(line, i + 1, FALSE, <<>>, FALSE, <<>>, ended)
              ELSE IF ch = "\""
              THEN Sh(line, i + 1, TRUE, word, TRUE, words, cmds)
              ELSE IF ch = "\\" /\ i < Len(line)
              THEN Sh(line, i + 2, FALSE, Append(word, line[i + 1]), TRUE, words, cmds)
              ELSE Sh(line, i + 1, FALSE, Append(word, ch), TRUE, words, cmds)

ShellParse(line) == Sh(line, 1, FALSE, <<>>, FALSE, <<>>, <<>>)

\* values of --filter: none, the empty string, a tag, and strings with a
\* space, with double quotes, with semicolons, with a backslash
TestFilters ==
    { None,
      <<>>,
      <<"[","b","]">>,
      <<"a"," ","b">>,
      <<"a","\""," ","\"","b">>,
      <<"\"",";","x",";","\"">>,
      <<"a","\\">> }

\* "inv test [--filter=S]"
InvokeTest(p) ==
    /\ runs[p] < TestRuns
    /\ \E filter \in TestFilters : Start(p, Call("test", FALSE, filter))

NextTest ==
    \/ InvokeTest(1)
    \/ EnterTask(1)
    \/ MakeDirs(1)
    \/ RunCommand(1)
    \/ Finish(1)

SpecTest == Init /\ [][NextTest]_vars

\* C13: whatever the filter, the command line test hands to c.run makes
\* the shell run one command, the test binary, with the filter as its only
\* argument, character for character, and with no argument when no filter
\* was given.
C13_FilterIsOneArgument ==
    call[1].task = "test"
        => \A i \in Ran(1, "tests") :
              ShellParse(log[1][i].arg) =
                  [ok |-> TRUE,
                   cmds |-> << <<BUILD_DIR \o <<"/VoiceChangerTests">> >>
                               \o (IF call[1].filter = None
                                   THEN <<>>
                                   ELSE <<call[1].filter>>) >>]

\* the steps of the invocation of p that failed
Failing(p) == { i \in DOMAIN log[p] : log[p][i].rc # 0 }

\* C14: an invocation that has ended has exit code 0 exactly when nothing
\* it did failed; when a command failed, its exit code is the exit status
\* of the first command that failed; when get_arch failed, it is not 0.
C14_ExitCode ==
    Done(1)
        => /\ exit[1] = 0 <=> Failing(1) = {}
           /\ Failing(1) # {}
                => LET first == CHOOSE i \in Failing(1) : \A j \in Failing(1) : i <= j
                   IN log[1][first].kind = "run" => exit[1] = log[1][first].rc

\* test has ended with the exit status 2 of the test binary, after a
\* configure and a build that succeeded
C14_Witness ==
    /\ Done(1) /\ call[1].task = "test"
    /\ exit[1] = 2
    /\ \E i \in Ran(1, "tests") : log[1][i].rc = 2
    /\ RanOk(1, "cmake -B") # {} /\ RanOk(1, "cmake --build") # {}

\* the tasks that must run before t: its pre-tasks, theirs, and so on
PreSet(t) == { Pre(t)[k] : k \in DOMAIN Pre(t) }

RECURSIVE PreClosure(_, _)
PreClosure(S, n) ==
    IF n = 0 THEN S
    ELSE PreClosure(S \cup UNION { PreSet(u) : u \in S }, n - 1)

Before(t) == PreClosure(PreSet(t), Cardinality(Tasks))

Acyclic == \A t \in Tasks : t \notin Before(t)

OutsideBuildUnchanged(p) ==
    fs.ext = start[p].ext /\ fs.deps = start[p].deps /\ fs.zip = start[p].zip

\* C16: clean leaves everything outside the build directory as it was and,
\* when it succeeds, no build directory; clean_deps always succeeds, leaves
\* no external directory and no local path, and the build directory as it
\* was; each changes nothing and succeeds when its target is absent; a
\* fetch_deps that follows clean_deps finds no local path and, when it
\* succeeds, has issued commands for all five dependencies.
C16_CleanAndCleanDeps ==
    /\ (status[1] # "idle" /\ call[1].task = "clean")
         => /\ OutsideBuildUnchanged(1)
            /\ Succeeded(1) => fs.build = NoBuildDir
            /\ (Done(1) /\ ~start[1].build.exists) => exit[1] = 0 /\ fs = start[1]
    /\ (status[1] # "idle" /\ call[1].task = "clean_deps")
         => /\ fs.build = start[1].build /\ fs.zip = start[1].zip
            /\ Done(1)
                 => /\ exit[1] = 0
                    /\ ~fs.ext
                    /\ \A d \in Deps : fs.deps[d] = "absent"
                    /\ ~start[1].ext => fs = start[1]
    /\ (status[1] # "idle" /\ call[1].task = "fetch_deps"
          /\ prev[1].task = "clean_deps")
         => /\ \A d \in Deps : start[1].deps[d] = "absent"
            /\ Succeeded(1) => Attempted(1) = Deps

\* clean_deps has removed an external directory that held a complete
\* dependency
C16_Witness ==
    /\ Succeeded(1) /\ call[1].task = "clean_deps"
    /\ start[1].ext /\ \E d \in Deps : start[1].deps[d] = "complete"
    /\ ~fs.ext /\ \A d \in Deps : fs.deps[d] = "absent"

\* C17: on a host whose identifier names neither architecture, an
\* invocation that runs fetch_deps issues no command and leaves the
\* filesystem as it found it, without an external directory made; it ends
\* with an error.
C17_UnsupportedTouchesNothing ==
    (Fetches(1) /\ machine \notin X86Names \cup ArmNames)
        => /\ fs = start[1]
           /\ \A i \in DOMAIN log[1] : log[1][i].kind # "run"
           /\ Done(1) => exit[1] # 0 /\ Failing(1) # {}

\* fetch_deps has failed on an unsupported host of a fresh checkout, and
\* there is no external directory
C17_Witness ==
    /\ Done(1) /\ call[1].task = "fetch_deps"
    /\ machine \notin X86Names \cup ArmNames
    /\ exit[1] # 0
    /\ \E i \in DOMAIN log[1] : log[1][i].kind = "arch"
    /\ ~fs.ext

\* C18: when an invocation that runs fetch_deps has succeeded, the
\* external directory and all five local paths exist, and the zip of no
\* archive it downloaded is left in /tmp.
C18_SuccessMeansAllPresent ==
    (Fetches(1) /\ Succeeded(1))
        => /\ fs.ext
           /\ \A d \in Deps : fs.deps[d] # "absent"
           /\ \A d \in Archives \cap Attempted(1) : fs.zip[d].st = "absent"

\* fetch_deps has succeeded after fetching all five dependencies
C18_Witness ==
    /\ Succeeded(1) /\ call[1].task = "fetch_deps"
    /\ Attempted(1) = Deps
    /\ \A d \in Deps : fs.deps[d] = "complete"
    /\ \A d \in Archives : fs.zip[d].st = "absent"

=============================================================================
